---- MODULE Spec2Model ----
(***************************************************************************)
(* Model of the tariff analysis service: the CSV-backed tariff store       *)
(* (src/core/data_loader.py), the result builder (src/core/models.py),     *)
(* the stage functions (src/agents/*.py) and the stage engine              *)
(* (src/core/dynamic_pipeline.py).                                         *)
(*                                                                         *)
(* Conventions.  An Optional[X] value is a sequence: << >> is None and     *)
(* <<x>> is the value x.  Tariff rates are integers in thousandths         *)
(* (0.135 is 135); dates are day numbers.  Strings produced by the         *)
(* program (responses, error messages) are modelled by short tags.         *)
(***************************************************************************)
EXTENDS Integers, Sequences, FiniteSets, TLC

\* ---------------------------------------------------------------- bounds
\* largest number of rows of tariffs.csv in the store specification
MaxRows == 2
\* dates of the rows are 1..MaxDate; as_of dates range over 0..MaxDate+1
MaxDate == 3
\* number of threads reading the store at the same time
MaxReaders == 2
\* longest execution path handed to generate_graphviz_dot
MaxPath == 4
\* number of execute_node calls made on one AgentState
MaxCalls == 3
\* rows the CRUD server's table holds before the requests
MaxStored == 2

\* ------------------------------------------------ src/core/models.py enums
Country == {"China", "Vietnam", "Mexico", "India", "USA"}
ProductType == {"Electronics", "Apparel", "Home", "Toys"}
QueryIntent == {"tariff_rate", "comparison", "general_info", "unsupported"}

\* the part of the enums the model's tables and queries range over
ModelCountries == {"China", "Vietnam"}
ModelProducts == {"Toys"}
ModelRates == {80, 135}
Dates == 1..MaxDate
AsOfDates == {<< >>} \cup {<<d>> : d \in 0..(MaxDate + 1)}

None == << >>
Some(x) == <<x>>
SeqRange(s) == {s[i] : i \in 1..Len(s)}

\* ------------------------------------------------------------- the table
\* one row of the DataFrame held by TariffDataLoader._tariffs_df
Rows == [country : ModelCountries, product_type : ModelProducts,
         current_tariff : ModelRates, start_time : Dates]

SeqsUpTo(S, n) == UNION {[1..k -> S] : k \in 0..n}

\* every table tariffs.csv can hold within the bounds, in file order
Tables == SeqsUpTo(Rows, MaxRows)

\* TariffData(...) of models.py: current_tariff is validated to [0, 1]
TariffDataValid(row) == row.current_tariff >= 0 /\ row.current_tariff <= 1000

TariffData(row) ==
    [country |-> row.country, product_type |-> row.product_type,
     current_tariff |-> row.current_tariff, start_time |-> row.start_time]

\* df[(df['country'] == c) & (df['product_type'] == p)]: rows in table order
FilterKey(df, country, product_type) ==
    SelectSeq(df, LAMBDA r : r.country = country /\ r.product_type = product_type)

\* filtered[filtered['start_time'] <= as_of_date]
\* faulty variant: the comparison written as < instead of <=
FilterAsOf_strict(rows, d) == SelectSeq(rows, LAMBDA r : r.start_time < d)

FilterAsOf(rows, d) == SelectSeq(rows, LAMBDA r : r.start_time <= d)

\* Series.idxmax / idxmin: position of the first row holding the extreme
\* value; 0 stands for the ValueError pandas raises on an empty selection.
\* (The column holds datetime.date objects; idxmax/idxmin over such a column
\* is taken to behave as documented, which pandas does from version 2.1 on.)
IdxMax(rows) ==
    IF rows = << >> THEN 0
    ELSE CHOOSE i \in 1..Len(rows) :
           /\ \A j \in 1..Len(rows) : rows[j].start_time <= rows[i].start_time
           /\ \A j \in 1..(i - 1) : rows[j].start_time < rows[i].start_time

IdxMin(rows) ==
    IF rows = << >> THEN 0
    ELSE CHOOSE i \in 1..Len(rows) :
           /\ \A j \in 1..Len(rows) : rows[j].start_time >= rows[i].start_time
           /\ \A j \in 1..(i - 1) : rows[j].start_time > rows[i].start_time

\* rows.loc[label] / rows.iloc[i]: << >> stands for the raised lookup error
RowAt(rows, i) == IF i \in 1..Len(rows) THEN <<rows[i]>> ELSE << >>

\* the outcome of a store lookup: it raised, or it returned current (and
\* previous), each None or a TariffData
Raised == [raised |-> TRUE, current |-> None, previous |-> None]
Returned(cur, prev) == [raised |-> FALSE, current |-> cur, previous |-> prev]

BuildTariffData(sel) ==
    IF sel = << >> \/ ~TariffDataValid(sel[1]) THEN << >>
    ELSE <<TariffData(sel[1])>>

\* ------------------------------------------- TariffDataLoader.get_tariff_rate
\* faulty variant: no earliest-record fallback, None when nothing is visible
get_tariff_rate_nofallback(df, country, product_type, as_of_date) ==
    LET filtered == FilterKey(df, country, product_type)
    IN  IF filtered = << >> THEN Returned(None, None)
        ELSE LET sel == IF as_of_date = None
                        THEN RowAt(filtered, IdxMax(filtered))
                        ELSE LET valid_tariffs == FilterAsOf(filtered, as_of_date[1])
                             IN  RowAt(valid_tariffs, IdxMax(valid_tariffs))
             IN  IF sel = << >> THEN Returned(None, None)
                 ELSE Returned(BuildTariffData(sel), None)

\* faulty variant: idxmin in place of idxmax
get_tariff_rate_earliest(df, country, product_type, as_of_date) ==
    LET filtered == FilterKey(df, country, product_type)
    IN  IF filtered = << >> THEN Returned(None, None)
        ELSE Returned(BuildTariffData(RowAt(filtered, IdxMin(filtered))), None)

get_tariff_rate(df, country, product_type, as_of_date) ==
    LET filtered == FilterKey(df, country, product_type)
    IN  IF filtered = << >> THEN Returned(None, None)
        ELSE LET sel == IF as_of_date = None
                        THEN RowAt(filtered, IdxMax(filtered))
                        ELSE LET valid_tariffs == FilterAsOf(filtered, as_of_date[1])
                             IN  IF valid_tariffs = << >>
                                 THEN RowAt(filtered, IdxMin(filtered))
                                 ELSE RowAt(valid_tariffs, IdxMax(valid_tariffs))
                 data == BuildTariffData(sel)
             IN  IF data = << >> THEN Raised ELSE Returned(data, None)

\* ----------------------------------- TariffDataLoader.get_tariff_with_history
\* filtered.sort_values('start_time') uses pandas' default quicksort, which
\* does not fix the order of rows with equal dates: every ordering of the
\* rows that is ascending by start_time is a possible outcome
IsSortedByDate(rows) ==
    \A i \in 1..(Len(rows) - 1) : rows[i].start_time <= rows[i + 1].start_time

SortOutcomes(rows) ==
    LET n == Len(rows)
        perms == {p \in [1..n -> 1..n] : \A i, j \in 1..n : p[i] = p[j] => i = j}
    IN  {s \in {[i \in 1..n |-> rows[p[i]]] : p \in perms} : IsSortedByDate(s)}

\* rows.iloc[:-1]
AllButLast(rows) == SubSeq(rows, 1, Len(rows) - 1)

\* rows.iloc[-k]
FromEnd(rows, k) == RowAt(rows, Len(rows) - k + 1)

\* faulty variant: the filtered.empty guard left out, so iloc raises
history_unguarded(df, country, product_type, as_of_date, sorted_rows) ==
    LET sel == IF as_of_date = None THEN FromEnd(sorted_rows, 1)
               ELSE LET valid_tariffs == FilterAsOf(sorted_rows, as_of_date[1])
                    IN  IF valid_tariffs = << >> THEN RowAt(sorted_rows, 1)
                        ELSE FromEnd(valid_tariffs, 1)
        current_data == BuildTariffData(sel)
    IN  IF current_data = << >> THEN Raised ELSE Returned(current_data, None)

\* sorted_rows is the outcome of the sort_values call on the key's rows
get_tariff_with_history(df, country, product_type, as_of_date, sorted_rows) ==
    LET filtered == FilterKey(df, country, product_type)
    IN  IF filtered = << >> THEN Returned(None, None)
        ELSE LET valid_tariffs == FilterAsOf(sorted_rows, as_of_date[1])
                 previous_tariffs == AllButLast(valid_tariffs)
                 current_tariff ==
                     IF as_of_date = None THEN FromEnd(sorted_rows, 1)
                     ELSE IF valid_tariffs = << >> THEN RowAt(sorted_rows, 1)
                     ELSE FromEnd(valid_tariffs, 1)
                 previous_tariff ==
                     IF as_of_date = None
                     THEN IF Len(sorted_rows) > 1 THEN FromEnd(sorted_rows, 2) ELSE None
                     ELSE IF valid_tariffs = << >> THEN None
                     ELSE IF Len(previous_tariffs) > 0
                          THEN FromEnd(previous_tariffs, 1) ELSE None
                 current_data == BuildTariffData(current_tariff)
                 previous_data == BuildTariffData(previous_tariff)
             IN  IF current_data = << >> THEN Raised
                 ELSE IF previous_tariff # None /\ previous_data = << >> THEN Raised
                 ELSE Returned(current_data, previous_data)

\* --------------------------------------- TariffResult (src/core/models.py)
\* n / d rounded to the nearest integer, ties to even, as round() rounds
RoundDiv(n, d) ==
    LET q == (2 * n + d) \div (2 * d)
    IN  IF (2 * n + d) % (2 * d) = 0 /\ q % 2 = 1 THEN q - 1 ELSE q

\* faulty variant: the relative change is set to zero when the previous rate is 0
RelativeChange_zero(current, previous) ==
    IF previous > 0 THEN Some(RoundDiv((current - previous) * 10000, previous))
    ELSE Some(0)

\* round(((current - previous) / previous) * 100, 2) when previous > 0, else
\* the key is not set.  The quotient of two floats can fall on either side of
\* a rounding tie; the rates of the model produce no tie.
RelativeChange(current, previous) ==
    IF previous > 0 THEN Some(RoundDiv((current - previous) * 10000, previous))
    ELSE None

\* faulty variant: the comparison for "increased" is not strict
Trend_nonstrict(current, previous) ==
    IF current >= previous THEN "increased"
    ELSE IF current < previous THEN "decreased"
    ELSE "unchanged"

\* the trend of TariffResult.__init__
Trend(current, previous) ==
    IF current > previous THEN "increased"
    ELSE IF current < previous THEN "decreased"
    ELSE "unchanged"

\* TariffResult.__init__.  Rates and rate_change are in thousandths, the
\* percentages in hundredths of a percent.  previous_rate is None when the
\* 'previous_rate' key is not passed.
TariffResult(co, pt, tariff_rate, effective_date, found, message, previous_rate, previous_date) ==
    LET has_previous == previous_rate # None
        current == tariff_rate
        previous == previous_rate[1]
    IN  [country |-> co,
         product_type |-> pt,
         tariff_rate |-> tariff_rate,
         tariff_percentage |-> tariff_rate * 10,
         effective_date |-> effective_date,
         found |-> found,
         message |-> message,
         previous_rate |-> previous_rate,
         previous_percentage |-> IF has_previous THEN Some(previous * 10) ELSE None,
         previous_date |-> previous_date,
         rate_change |-> IF has_previous THEN Some(current - previous) ELSE None,
         rate_change_percentage |->
             IF has_previous THEN RelativeChange(current, previous) ELSE None,
         trend |-> IF has_previous THEN Some(Trend(current, previous)) ELSE None]

\* ------------------------ TariffLookupAgent (src/agents/tariff_lookup.py)
\* faulty variant: a key without records is reported as found, without message
lookup_tariff_miss_found(df, country, product_type, sorted_rows) ==
    LET r == get_tariff_with_history(df, country, product_type, None, sorted_rows)
    IN  IF r.raised
        THEN TariffResult(country, product_type, 0, None, FALSE,
                          Some("Error looking up tariff"), None, None)
        ELSE IF r.current # None
        THEN TariffResult(r.current[1].country, r.current[1].product_type,
                          r.current[1].current_tariff, Some(r.current[1].start_time),
                          TRUE, None,
                          IF r.previous # None THEN Some(r.previous[1].current_tariff)
                          ELSE None,
                          IF r.previous # None THEN Some(r.previous[1].start_time)
                          ELSE None)
        ELSE TariffResult(country, product_type, 0, None, TRUE, None, None, None)

\* faulty variant: the lookup takes the include_history=False branch, which
\* passes no previous record to TariffResult
lookup_tariff_nohistory(df, country, product_type, sorted_rows) ==
    LET tariff_data == get_tariff_rate(df, country, product_type, None)
    IN  IF tariff_data.raised
        THEN TariffResult(country, product_type, 0, None, FALSE,
                          Some("Error looking up tariff"), None, None)
        ELSE IF tariff_data.current # None
        THEN TariffResult(tariff_data.current[1].country,
                          tariff_data.current[1].product_type,
                          tariff_data.current[1].current_tariff,
                          Some(tariff_data.current[1].start_time), TRUE, None, None, None)
        ELSE TariffResult(country, product_type, 0, None, FALSE,
                          Some("No tariff data found"), None, None)

\* lookup_tariff with the default as_of_date=None, include_history=True, for
\* one outcome of the store's sort; an exception of the store is caught and
\* becomes a found=False result
lookup_tariff(df, country, product_type, sorted_rows) ==
    LET r == get_tariff_with_history(df, country, product_type, None, sorted_rows)
    IN  IF r.raised
        THEN TariffResult(country, product_type, 0, None, FALSE,
                          Some("Error looking up tariff"), None, None)
        ELSE IF r.current # None
        THEN LET current_data == r.current[1]
             IN  IF r.previous # None
                 THEN TariffResult(current_data.country, current_data.product_type,
                                   current_data.current_tariff,
                                   Some(current_data.start_time), TRUE, None,
                                   Some(r.previous[1].current_tariff),
                                   Some(r.previous[1].start_time))
                 ELSE TariffResult(current_data.country, current_data.product_type,
                                   current_data.current_tariff,
                                   Some(current_data.start_time), TRUE, None, None, None)
        ELSE TariffResult(country, product_type, 0, None, FALSE,
                          Some("No tariff data found"), None, None)

\* every result lookup_tariff can return for a key
LookupTariffOutcomes(df, country, product_type) ==
    {lookup_tariff(df, country, product_type, sorted_rows) :
        sorted_rows \in SortOutcomes(FilterKey(df, country, product_type))}

\* get_available_countries: the distinct countries of the table, in table
\* order, that are members of the Country enum
RECURSIVE Unique(_)
Unique(s) ==
    IF s = << >> THEN << >>
    ELSE LET front == Unique(SubSeq(s, 1, Len(s) - 1))
             x == s[Len(s)]
         IN  IF \E i \in 1..Len(front) : front[i] = x THEN front ELSE Append(front, x)

get_available_countries(df) ==
    SelectSeq(Unique([i \in 1..Len(df) |-> df[i].country]), LAMBDA c : c \in Country)

\* country_name.lower() followed by .title(): the enum value again, except
\* for the all-capitals "USA"
TitleOfLower(name) == IF name = "USA" THEN "Usa" ELSE name

\* the subsequences of a list: the names a query text can contain
SubSeqsOf(s) ==
    {SelectSeq(s, LAMBDA x : x \in keep) : keep \in SUBSET SeqRange(s)}

\* the placeholder result of handle_comparison_query
PlaceholderResult(product_type, message) ==
    TariffResult("USA", product_type, 0, None, FALSE, Some(message), None, None)

\* handle_comparison_query: in_query lists the available countries whose name
\* occurs in the query text (used only when the classifier named no country);
\* the result is every list of results the lookups can produce
handle_comparison_query(df, parsed_query, in_query) ==
    LET product_type == IF parsed_query.product_type = None THEN "Electronics"
                        ELSE parsed_query.product_type[1]
        mentioned_countries ==
            IF parsed_query.countries_mentioned # << >>
            THEN parsed_query.countries_mentioned
            ELSE [i \in 1..Len(in_query) |-> TitleOfLower(in_query[i])]
        n == Len(mentioned_countries)
        choices == [i \in 1..n |->
            IF mentioned_countries[i] \in Country
            THEN LookupTariffOutcomes(df, mentioned_countries[i], product_type)
            ELSE {PlaceholderResult(product_type, "Country is not supported")}]
    IN  IF mentioned_countries = << >>
        THEN {<<PlaceholderResult(product_type, "Could not identify countries")>>}
        ELSE {results \in [1..n -> UNION {choices[i] : i \in 1..n}] :
                 \A i \in 1..n : results[i] \in choices[i]}

\* -------------------------------------------- AgentState (src/core/models.py)
\* AgentState(query=query, current_node="start", step="initial").  The
\* timings are kept as the set of keys of node_timings.
InitialState ==
    [parsed_query |-> None, tariff_result |-> None, tariff_results |-> None,
     response |-> None, error |-> None, step |-> "initial",
     execution_path |-> << >>, node_timings |-> {}, current_node |-> "start",
     next_nodes |-> << >>, retry_count |-> {}]

\* the outcome of calling a stage function: it returned st, or it raised
NodeReturned(st) == [raised |-> FALSE, st |-> st]
NodeRaised(st) == [raised |-> TRUE, st |-> st]

\* ------------------------------- stage functions of DynamicLangGraphPipeline
start_node(st) ==
    {NodeReturned([st EXCEPT !.current_node = "start",
                             !.execution_path = <<"start">>,
                             !.step = "started"])}

end_node(st) ==
    {NodeReturned([st EXCEPT !.current_node = "end", !.step = "completed"])}

\* ------------------------------------- src/agents/query_parser.py
\* what the classifier (the chat completion) can answer: the call or the JSON
\* decoding fails, or it yields the fields parse_query reads
ClassifierAnswers ==
    [failed : {TRUE}, country : {None}, product_type : {None},
     intent : {"none"}, countries_mentioned : {<< >>}]
    \cup
    [failed : {FALSE},
     country : {None, Some("China"), Some("France")},
     product_type : {None, Some("Toys"), Some("Food")},
     intent : QueryIntent \cup {"forecast"},
     countries_mentioned : {<< >>, <<"China", "France">>}]

\* a TariffQuery; of parsed_entities it keeps the list under
\* "countries_mentioned" and whether the key "error" is set
TariffQuery(country, product_type, intent, countries_mentioned, error) ==
    [country |-> country, product_type |-> product_type, intent |-> intent,
     countries_mentioned |-> countries_mentioned, parsed_entities_error |-> error]

\* QueryParserAgent.parse_query: Country(...), ProductType(...) and
\* QueryIntent(...) raise ValueError on a value outside the enum; every
\* exception is answered by the general_info query, with the exception's text
\* under parsed_entities["error"]
parse_query(answer) ==
    IF \/ answer.failed
       \/ (answer.country # None /\ answer.country[1] \notin Country)
       \/ (answer.product_type # None /\ answer.product_type[1] \notin ProductType)
       \/ answer.intent \notin QueryIntent
    THEN TariffQuery(None, None, "general_info", << >>, TRUE)
    ELSE TariffQuery(answer.country, answer.product_type, answer.intent,
                     answer.countries_mentioned, FALSE)

\* the try block of parse_query_node (lines 223-230) when the classifier
\* answers `answer`
Parsed(st, answer) ==
    NodeReturned([st EXCEPT !.parsed_query = Some(parse_query(answer)),
                            !.step = "parsed",
                            !.error = None])

\* parse_query_node: QueryParserAgent() is built outside the try block and
\* raises when the client cannot be set up
parse_query_node(st) ==
    {NodeRaised(st)} \cup {Parsed(st, answer) : answer \in ClassifierAnswers}

\* ------------------------------------- src/agents/tariff_lookup.py
\* get_data_summary: min() of an empty start_time column is NaN, whose
\* isoformat() does not exist, so the summary of an empty table raises
DataSummaryRaises(df) == df = << >>

WithError(st, message) == [st EXCEPT !.error = Some(message), !.step = "error"]

\* tariff_lookup_node; it catches every exception and never raises
tariff_lookup_node(st, df) ==
    IF st.parsed_query = None
    THEN {NodeReturned(WithError(st, "No parsed query available"))}
    ELSE LET parsed_query == st.parsed_query[1]
         IN  CASE parsed_query.intent = "tariff_rate" ->
                    IF parsed_query.country # None /\ parsed_query.product_type # None
                    THEN {NodeReturned([st EXCEPT !.tariff_result = Some(tariff_result),
                                                  !.step = "lookup_complete",
                                                  !.error = None]) :
                             tariff_result \in LookupTariffOutcomes(df,
                                 parsed_query.country[1], parsed_query.product_type[1])}
                    ELSE {NodeReturned(WithError(st, "Missing required information"))}
               [] parsed_query.intent = "comparison" ->
                    {NodeReturned([st EXCEPT
                         !.tariff_results = Some(tariff_results),
                         !.tariff_result = IF Len(tariff_results) = 1
                                           THEN Some(tariff_results[1]) ELSE None,
                         !.step = "lookup_complete",
                         !.error = None]) :
                       tariff_results \in UNION {
                           handle_comparison_query(df, parsed_query, in_query) :
                               in_query \in SubSeqsOf(get_available_countries(df))}}
               [] parsed_query.intent = "general_info" ->
                    IF DataSummaryRaises(df)
                    THEN {NodeReturned(WithError(st, "Tariff lookup failed"))}
                    ELSE {NodeReturned([st EXCEPT !.response = Some("Available tariff data"),
                                                  !.step = "lookup_complete",
                                                  !.error = None])}
               [] parsed_query.intent = "unsupported" ->
                    {NodeReturned(WithError(st, "Cannot perform this analysis"))}
               [] OTHER ->
                    {NodeReturned(WithError(st, "Unknown query intent"))}

\* ------------------------------------- src/agents/data_summary.py
data_summary_node(st, df) ==
    IF DataSummaryRaises(df)
    THEN {NodeReturned(WithError(st, "Data summary failed"))}
    ELSE {NodeReturned([st EXCEPT !.response = Some("Data overview"),
                                  !.step = "data_summary_complete",
                                  !.error = None,
                                  !.node_timings = @ \cup {"data_summary"}])}

\* ------------------------------------- src/agents/error_handler.py
\* faulty variant: the handler clears the error but sets no response
error_handler_node_silent(st) ==
    {NodeReturned([st EXCEPT !.step = "error_handled",
                             !.error = None,
                             !.node_timings = @ \cup {"error_handler"}])}

\* faulty variant: the handler answers but leaves the error in place
error_handler_node_keeps_error(st) ==
    {NodeReturned([st EXCEPT !.response = Some("Troubleshooting tips"),
                             !.step = "error_handled",
                             !.node_timings = @ \cup {"error_handler"}])}

\* error_handler_node: nothing in its try block can raise
error_handler_node(st) ==
    {NodeReturned([st EXCEPT !.response = Some("Troubleshooting tips"),
                             !.step = "error_handled",
                             !.error = None,
                             !.node_timings = @ \cup {"error_handler"}])}

\* ------------------------------------- src/agents/response_formatter.py
\* what a completion can reply, stripped: some text, or nothing
LLMReplies == {"Generated text", ""}

\* Python truth of an Optional[str]
Truthy(opt) == opt # None /\ opt[1] # ""

\* _create_fallback_response formats rate_change_percentage with :.1f, which
\* raises TypeError when the field is None
FallbackRaises(result) ==
    /\ result.found
    /\ result.previous_rate # None
    /\ result.trend \in {Some("increased"), Some("decreased")}
    /\ result.rate_change_percentage = None

Formatted(st, text) == NodeReturned([st EXCEPT !.response = Some(text), !.step = "complete"])

\* response_formatter_node: ResponseFormatterAgent() is built outside the try
\* block and raises when the client cannot be set up; each format_* method
\* answers a failed completion with its fallback text
response_formatter_node(st) ==
    {NodeRaised(st)}
    \cup
    (IF Truthy(st.error)
     THEN {Formatted(st, text) : text \in LLMReplies \cup {"Error fallback"}}
     ELSE IF st.tariff_results # None /\ st.tariff_results[1] # << >>
     THEN {Formatted(st, text) : text \in LLMReplies \cup {"Comparison fallback"}}
     ELSE IF st.tariff_result # None
     THEN {Formatted(st, text) : text \in LLMReplies}
          \cup (IF FallbackRaises(st.tariff_result[1])
                THEN {NodeReturned([st EXCEPT
                         !.response = Some("Issue formatting the response"),
                         !.error = Some("unsupported format string"),
                         !.step = "complete"])}
                ELSE {Formatted(st, "Tariff fallback")})
     ELSE IF Truthy(st.response)
     THEN {NodeReturned([st EXCEPT !.step = "complete"])}
     ELSE {Formatted(st, text) : text \in LLMReplies \cup {"Error fallback"}})

\* ------------------------------------- src/agents/dynamic_router.py
routing_rules(intent) ==
    CASE intent = "tariff_rate" -> <<"parse_query", "tariff_lookup", "response_formatter">>
      [] intent = "comparison" -> <<"parse_query", "tariff_lookup", "response_formatter">>
      [] intent = "general_info" -> <<"parse_query", "data_summary", "response_formatter">>
      [] intent = "unsupported" -> <<"parse_query", "error_handler", "response_formatter">>
      [] OTHER -> <<"error_handler">>

determine_next_nodes(st) ==
    CASE st.current_node = "start" -> <<"parse_query">>
      [] st.current_node = "parse_query" ->
            IF st.parsed_query # None THEN routing_rules(st.parsed_query[1].intent)
            ELSE <<"error_handler">>
      [] st.current_node = "tariff_lookup" -> <<"response_formatter">>
      [] st.current_node = "data_summary" -> <<"response_formatter">>
      [] st.current_node = "response_formatter" -> <<"end">>
      [] st.current_node = "error_handler" -> <<"end">>
      [] OTHER -> <<"end">>

AppendIfAbsent(path, name) == IF name \in SeqRange(path) THEN path ELSE Append(path, name)

router_node(st) ==
    {NodeReturned([st EXCEPT !.next_nodes = determine_next_nodes(st),
                             !.execution_path = AppendIfAbsent(@, st.current_node),
                             !.node_timings = @ \cup {st.current_node},
                             !.step = "routed",
                             !.error = None])}

\* ------------------------------------- src/core/dynamic_pipeline.py
max_iterations == 20

NodeRegistry == {"start", "parse_query", "tariff_lookup", "response_formatter",
                 "data_summary", "error_handler", "router", "end"}

\* graph_structure: the successors listed for each node
graph_structure(node_name) ==
    CASE node_name = "start" -> <<"router">>
      [] node_name = "router" -> <<"parse_query", "error_handler">>
      [] node_name = "parse_query" -> <<"router">>
      [] node_name = "tariff_lookup" -> <<"router">>
      [] node_name = "data_summary" -> <<"router">>
      [] node_name = "response_formatter" -> <<"end">>
      [] node_name = "error_handler" -> <<"end">>
      [] node_name = "end" -> << >>

\* node_func(state) for the registered node_name
NodeOutcomes(node_name, st, df) ==
    CASE node_name = "start" -> start_node(st)
      [] node_name = "parse_query" -> parse_query_node(st)
      [] node_name = "tariff_lookup" -> tariff_lookup_node(st, df)
      [] node_name = "response_formatter" -> response_formatter_node(st)
      [] node_name = "data_summary" -> data_summary_node(st, df)
      [] node_name = "error_handler" -> error_handler_node(st)
      [] node_name = "router" -> router_node(st)
      [] node_name = "end" -> end_node(st)

\* one way execute_node can end: the state it returns, whether the node
\* function was called and whether it raised
Executed(st, called, raised) == [st |-> st, called |-> called, raised |-> raised]

\* faulty variant: an unregistered name is passed over without a word
execute_node_unknown_silent(st, node_name, df) ==
    IF node_name \notin NodeRegistry
    THEN {Executed(st, FALSE, FALSE)}
    ELSE {IF o.raised
          THEN Executed([o.st EXCEPT !.error = Some("Node failed"), !.step = "error"],
                        TRUE, TRUE)
          ELSE Executed([o.st EXCEPT !.node_timings = @ \cup {node_name},
                                     !.execution_path = AppendIfAbsent(@, node_name)],
                        TRUE, FALSE) :
          o \in NodeOutcomes(node_name, [st EXCEPT !.current_node = node_name], df)}

\* faulty variant: the duration is recorded for a stage that raised, too
execute_node_times_failures(st, node_name, df) ==
    IF node_name \notin NodeRegistry
    THEN {Executed([st EXCEPT !.error = Some("Unknown node")], FALSE, FALSE)}
    ELSE {IF o.raised
          THEN Executed([o.st EXCEPT !.error = Some("Node failed"), !.step = "error",
                                     !.node_timings = @ \cup {node_name}],
                        TRUE, TRUE)
          ELSE Executed([o.st EXCEPT !.node_timings = @ \cup {node_name},
                                     !.execution_path = AppendIfAbsent(@, node_name)],
                        TRUE, FALSE) :
          o \in NodeOutcomes(node_name, [st EXCEPT !.current_node = node_name], df)}

\* execute_node: every state it can return for node_name
execute_node(st, node_name, df) ==
    IF node_name \notin NodeRegistry
    THEN {Executed([st EXCEPT !.error = Some("Unknown node")], FALSE, FALSE)}
    ELSE {IF o.raised
          THEN Executed([o.st EXCEPT !.error = Some("Node failed"), !.step = "error"],
                        TRUE, TRUE)
          ELSE Executed([o.st EXCEPT !.node_timings = @ \cup {node_name},
                                     !.execution_path = AppendIfAbsent(@, node_name)],
                        TRUE, FALSE) :
          o \in NodeOutcomes(node_name, [st EXCEPT !.current_node = node_name], df)}

\* faulty variant: every intent but general_info is sent to tariff_lookup
IntentRoute_lookup_first(cur, st) ==
    CASE cur = "start" -> "parse_query"
      [] cur = "parse_query" ->
            IF st.parsed_query # None
            THEN IF st.parsed_query[1].intent = "general_info" THEN "data_summary"
                 ELSE "tariff_lookup"
            ELSE "error_handler"
      [] cur \in {"tariff_lookup", "data_summary"} -> "response_formatter"
      [] OTHER -> "end"

\* faulty variant: only tariff_rate is sent to tariff_lookup, so comparison
\* falls through to error_handler
IntentRoute_rate_only(cur, st) ==
    CASE cur = "start" -> "parse_query"
      [] cur = "parse_query" ->
            IF st.parsed_query # None
            THEN IF st.parsed_query[1].intent = "tariff_rate" THEN "tariff_lookup"
                 ELSE IF st.parsed_query[1].intent = "general_info" THEN "data_summary"
                 ELSE "error_handler"
            ELSE "error_handler"
      [] cur \in {"tariff_lookup", "data_summary"} -> "response_formatter"
      [] OTHER -> "end"

\* faulty variant: data_summary is followed by tariff_lookup
IntentRoute_summary_then_lookup(cur, st) ==
    CASE cur = "start" -> "parse_query"
      [] cur = "parse_query" ->
            IF st.parsed_query # None
            THEN IF st.parsed_query[1].intent \in {"tariff_rate", "comparison"}
                 THEN "tariff_lookup"
                 ELSE IF st.parsed_query[1].intent = "general_info" THEN "data_summary"
                 ELSE "error_handler"
            ELSE "error_handler"
      [] cur = "data_summary" -> "tariff_lookup"
      [] cur = "tariff_lookup" -> "response_formatter"
      [] OTHER -> "end"

\* the intent routing of run_dynamic_analysis (lines 139-159)
IntentRoute(cur, st) ==
    CASE cur = "start" -> "parse_query"
      [] cur = "parse_query" ->
            IF st.parsed_query # None
            THEN IF st.parsed_query[1].intent \in {"tariff_rate", "comparison"}
                 THEN "tariff_lookup"
                 ELSE IF st.parsed_query[1].intent = "general_info" THEN "data_summary"
                 ELSE "error_handler"
            ELSE "error_handler"
      [] cur \in {"tariff_lookup", "data_summary"} -> "response_formatter"
      [] cur = "response_formatter" -> "end"
      [] cur = "error_handler" -> "end"
      [] OTHER -> "end"

\* faulty variant: the error short-circuit left out
NextNode_table_only(cur, st) == IntentRoute(cur, st)

\* faulty variant: a lookup or summary that failed is run again
NextNode_retrying(cur, st) ==
    IF Truthy(st.error) /\ cur \in {"tariff_lookup", "data_summary"} THEN cur
    ELSE IF Truthy(st.error) /\ cur # "error_handler" THEN "error_handler"
    ELSE IntentRoute(cur, st)

\* faulty variant: the short-circuit does not exempt error_handler
NextNode_unguarded(cur, st) ==
    IF Truthy(st.error) THEN "error_handler"
    ELSE IntentRoute(cur, st)

\* the node the loop runs after cur returned st: the error short-circuit
\* (lines 134-137), else the intent routing
NextNode(cur, st) ==
    IF Truthy(st.error) /\ cur # "error_handler" THEN "error_handler"
    ELSE IntentRoute(cur, st)

\* the condition of the while loop (line 128)
LoopContinues(cur, it) == cur # "end" /\ it < max_iterations

\* faulty variant: a failed lookup or summary is run again, uncounted
LoopAdvance_retrying(cur, it, st) ==
    IF Truthy(st.error) /\ cur \in {"tariff_lookup", "data_summary"}
    THEN [current_node |-> cur, iteration |-> it]
    ELSE [current_node |-> NextNode(cur, st), iteration |-> it + 1]

\* one pass of the loop body after execute_node returned st: the iteration
\* is counted and the next node chosen (lines 129-159)
LoopAdvance(cur, it, st) ==
    [current_node |-> NextNode(cur, st), iteration |-> it + 1]

\* the dictionary run_dynamic_analysis returns
ReturnValue(st) ==
    [response |-> st.response,
     tariff_info |-> st.tariff_result,
     comparison_data |-> IF st.tariff_results # None /\ st.tariff_results[1] # << >>
                         THEN st.tariff_results ELSE None,
     error |-> st.error,
     step |-> st.step,
     execution_path |-> st.execution_path,
     current_node |-> st.current_node,
     node_timings |-> st.node_timings]

\* ------------------------------------------------- generate_graphviz_dot
\* a line of the DOT text: a node definition, an edge (EXECUTED or not), or
\* other text (the preamble, a comment, the styling block)
DotText(text) == [kind |-> "text", text |-> text]
DotNode(name) == [kind |-> "node", name |-> name]
DotEdge(from, to, executed) ==
    [kind |-> "edge", from |-> from, to |-> to, executed |-> executed]

\* the node and edge definitions, in the order of lines 204-211 and 214-226
DotNodes ==
    <<"start", "router", "parse_query", "tariff_lookup", "data_summary",
      "response_formatter", "error_handler", "end">>
DotEdges ==
    <<<<"start", "router">>, <<"router", "parse_query">>, <<"router", "error_handler">>,
      <<"parse_query", "router">>, <<"tariff_lookup", "router">>,
      <<"data_summary", "router">>, <<"response_formatter", "end">>,
      <<"error_handler", "end">>, <<"router", "tariff_lookup">>,
      <<"router", "data_summary">>, <<"router", "error_handler">>>>

\* dot_lines as first built (lines 197-229); a node or edge line is kept by
\* what it defines, its label and colours left out
DotHead ==
    <<DotText("digraph TariffTokAI {"), DotText("    rankdir=TB;"),
      DotText("    node [shape=box, ...];"), DotText("    edge [fontname=...];"),
      DotText(""), DotText("    // Node definitions")>>
    \o [i \in 1..Len(DotNodes) |-> DotNode(DotNodes[i])]
    \o <<DotText(""), DotText("    // Edge definitions")>>
    \o [i \in 1..8 |-> DotEdge(DotEdges[i][1], DotEdges[i][2], FALSE)]
    \o <<DotText(""), DotText("    // Dynamic routing labels")>>
    \o [i \in 1..3 |-> DotEdge(DotEdges[i + 8][1], DotEdges[i + 8][2], FALSE)]
    \o <<DotText(""), DotText("    // Execution path highlighting")>>

\* the lines appended last (lines 239-247)
DotTail ==
    <<DotText(""), DotText("    // Styling"), DotText("    { rank=same; start; }"),
      DotText("    { rank=same; parse_query; tariff_lookup; data_summary; }"),
      DotText("    { rank=same; response_formatter; error_handler; }"),
      DotText("    { rank=same; end; }"), DotText("}")>>

\* faulty variant: the loop stops one pair early
generate_graphviz_dot_short(execution_path) ==
    IF execution_path # None /\ execution_path[1] # << >>
    THEN LET path == execution_path[1]
         IN  DotHead \o <<DotText("    // Highlighted execution path")>>
             \o [i \in 1..(IF Len(path) > 2 THEN Len(path) - 2 ELSE 0) |->
                    DotEdge(path[i], path[i + 1], TRUE)]
             \o DotTail
    ELSE DotHead \o DotTail

\* generate_graphviz_dot: `if execution_path:` is false for None and for [];
\* one EXECUTED edge per i with i < len(execution_path) - 1
generate_graphviz_dot(execution_path) ==
    IF execution_path # None /\ execution_path[1] # << >>
    THEN LET path == execution_path[1]
         IN  DotHead \o <<DotText("    // Highlighted execution path")>>
             \o [i \in 1..(Len(path) - 1) |-> DotEdge(path[i], path[i + 1], TRUE)]
             \o DotTail
    ELSE DotHead \o DotTail

\* ------------------------------------- data/src/server/crud_server.py
\* The table is markets: market_id stands for its required fields, population
\* is its optional field, comment is a field VALIDATION_RULES does not list.
\* A row is the set of its keys and an id that stands for its values.
CrudFields == {"market_id", "population", "comment"}
CrudRow(fields, id) == [fields |-> fields, id |-> id]

\* validate_data: every required field must be there; keys without a rule
\* are not looked at
validate_data(data) == "market_id" \in data.fields

CsvFile(header, rows) == [header |-> header, rows |-> rows]

\* read_csv_data: DictReader gives every row the keys of the header
read_csv_data(file) == [i \in 1..Len(file.rows) |-> CrudRow(file.header, file.rows[i].id)]

\* the first row DictWriter rejects: one with a key outside fieldnames
FirstRejected(data) ==
    LET bad == {i \in 1..Len(data) : ~(data[i].fields \subseteq data[1].fields)}
    IN  IF bad = {} THEN 0 ELSE CHOOSE i \in bad : \A j \in bad : i <= j

\* write_csv_data: open(..., 'w') empties the file, the header is
\* data[0].keys(), and writerows writes row after row until one has a key
\* that is not in the header (ValueError); missing keys are written as ''
write_csv_data(data) ==
    IF data = << >> THEN [raised |-> FALSE, file |-> CsvFile({}, << >>)]
    ELSE LET k == FirstRejected(data)
             n == IF k = 0 THEN Len(data) ELSE k - 1
         IN  [raised |-> k # 0,
              file |-> CsvFile(data[1].fields,
                               [i \in 1..n |-> CrudRow(data[1].fields, data[i].id)])]

\* ------------------------------------------------------------------ state
VARIABLES
    table,          \* data_loader._tariffs_df: the rows of tariffs.csv, in file order
    lookup,         \* the last lookup made on the store and what it returned
    relookup,       \* the same lookup made again with a later as_of_date
    pc,             \* position of run_dynamic_analysis: idle, loop, done
    state,          \* the AgentState of the run
    current_node,   \* local current_node of run_dynamic_analysis
    iteration,      \* local iteration of run_dynamic_analysis
    invoked,        \* history: the stage functions invoked so far, in order
    raised_in,      \* history: the stages whose function raised
    returned,       \* the dictionary run_dynamic_analysis returned
    csv_file,       \* tariffs.csv: None when missing, else its rows as text
    frames,         \* the DataFrame each reader's read_csv created, if any
    tariffs_df,     \* data_loader._tariffs_df: None, or whose frame it refers to
    cache_valid,    \* data_loader._cache_valid
    rd,             \* each concurrent reader's position in get_tariff_rate
    runs,           \* the concurrent invocations of run_dynamic_analysis
    table_csv,      \* crud_server: the CSV file of one table, header and rows
    requests        \* crud_server: each client's request and how far it got

vars == <<table, lookup, relookup, pc, state, current_node, iteration,
          invoked, raised_in, returned, csv_file, frames, tariffs_df,
          cache_valid, rd, runs, table_csv, requests>>

storeVars == <<lookup, relookup>>
engineVars == <<pc, state, current_node, iteration, invoked, raised_in, returned>>
loaderVars == <<csv_file, frames, tariffs_df, cache_valid, rd>>
crudVars == <<table_csv, requests>>

\* the concurrent readers of the store and invocations of the engine
Readers == 1..MaxReaders
RunIds == 1..2

\* TariffDataLoader.__init__: nothing loaded, no reader inside the store
LoaderIdle ==
    /\ csv_file = None
    /\ frames = [r \in Readers |-> "none"]
    /\ tariffs_df = None
    /\ cache_valid = FALSE
    /\ rd = [r \in Readers |-> [pc |-> "idle", column |-> FALSE, got |-> None,
                                 result |-> None]]

\* no invocation of run_dynamic_analysis besides the one in pc and state
NoOtherRuns == runs = << >>

\* the clients of the CRUD server; Flask serves each request on its own thread
Clients == 1..2

\* a client that has sent nothing
NoRequest ==
    [pc |-> "idle", op |-> "none", row_id |-> 0, body |-> CrudRow({}, 0),
     data |-> << >>, status |-> 0, answered_row_id |-> -1]

\* the CRUD server before any request, its table empty
CrudIdle ==
    /\ table_csv = CsvFile({}, << >>)
    /\ requests = [t \in Clients |-> NoRequest]

\* ------------------------------------------------- lookups on the store
QueryKeys == ModelCountries \X ModelProducts

Call(fn, country, product_type, as_of_date, result) ==
    [fn |-> fn, country |-> country, product_type |-> product_type,
     as_of_date |-> as_of_date, result |-> result]

CallGetTariffRate(country, product_type, as_of_date) ==
    /\ lookup' = Some(Call("get_tariff_rate", country, product_type, as_of_date,
                           get_tariff_rate(table, country, product_type, as_of_date)))
    /\ relookup' = None
    /\ UNCHANGED <<table, crudVars, engineVars, loaderVars, runs>>

CallGetTariffWithHistory(country, product_type, as_of_date) ==
    /\ \E sorted_rows \in SortOutcomes(FilterKey(table, country, product_type)) :
          lookup' = Some(Call("get_tariff_with_history", country, product_type, as_of_date,
                              get_tariff_with_history(table, country, product_type,
                                                      as_of_date, sorted_rows)))
    /\ relookup' = None
    /\ UNCHANGED <<table, crudVars, engineVars, loaderVars, runs>>

\* the caller repeats its get_tariff_rate lookup with a later as_of_date
RepeatGetTariffRate(later) ==
    /\ lookup # None
    /\ lookup[1].fn = "get_tariff_rate"
    /\ lookup[1].as_of_date # None
    /\ later # None
    /\ later[1] > lookup[1].as_of_date[1]
    /\ relookup' = Some(Call("get_tariff_rate", lookup[1].country, lookup[1].product_type,
                             later, get_tariff_rate(table, lookup[1].country,
                                                    lookup[1].product_type, later)))
    /\ UNCHANGED <<table, crudVars, lookup, engineVars, loaderVars, runs>>

\* the engine before any request
EngineIdle ==
    /\ pc = "idle"
    /\ state = None
    /\ current_node = "start"
    /\ iteration = 0
    /\ invoked = << >>
    /\ raised_in = {}
    /\ returned = None

\* the rows and tables of the engine specification: the rows of the key the
\* requests ask about vary in rate and date, a second country has one row
EngineRates == {0, 135}
EngineDates == 1..2
EngineRows ==
    [country : {"China"}, product_type : ModelProducts,
     current_tariff : EngineRates, start_time : EngineDates]
    \cup [country : {"Vietnam"}, product_type : ModelProducts,
          current_tariff : {135}, start_time : {1}]
EngineTables == SeqsUpTo(EngineRows, MaxRows)

InitStore ==
    /\ table \in Tables
    /\ lookup = None
    /\ relookup = None
    /\ EngineIdle
    /\ LoaderIdle
    /\ NoOtherRuns
    /\ CrudIdle

NextStore ==
    \/ \E k \in QueryKeys, a \in AsOfDates : CallGetTariffRate(k[1], k[2], a)
    \/ \E k \in QueryKeys, a \in AsOfDates : CallGetTariffWithHistory(k[1], k[2], a)
    \/ \E a \in AsOfDates : RepeatGetTariffRate(a)

SpecStore == InitStore /\ [][NextStore]_vars

\* ------------------------------------------ lookup_tariff on the store
\* the tables of the lookup specification: one key, with a zero rate
ResultRates == {0, 80, 135}
ResultRows ==
    [country : {"China"}, product_type : ModelProducts,
     current_tariff : ResultRates, start_time : Dates]
ResultTables == SeqsUpTo(ResultRows, MaxRows)

\* agent.lookup_tariff(country, product_type), as tariff_lookup_node and
\* handle_comparison_query call it
CallLookupTariff(country, product_type) ==
    /\ \E sorted_rows \in SortOutcomes(FilterKey(table, country, product_type)) :
          lookup' = Some(Call("lookup_tariff", country, product_type, None,
                              lookup_tariff(table, country, product_type, sorted_rows)))
    /\ relookup' = None
    /\ UNCHANGED <<table, crudVars, engineVars, loaderVars, runs>>

InitLookup ==
    /\ table \in ResultTables
    /\ lookup = None
    /\ relookup = None
    /\ EngineIdle
    /\ LoaderIdle
    /\ NoOtherRuns
    /\ CrudIdle

NextLookup ==
    \E k \in QueryKeys : CallLookupTariff(k[1], k[2])

SpecLookup == InitLookup /\ [][NextLookup]_vars

\* ------------------------------------- parse_query_node on one answer
\* parse_query_node(state) on the state start_node leaves, for one answer of
\* the classifier; the call and its outcome are kept in `lookup`
StartedState == (CHOOSE o \in start_node(InitialState) : TRUE).st

CallParseQueryNode(answer) ==
    /\ lookup' = Some([fn |-> "parse_query_node", answer |-> answer,
                       result |-> Parsed(StartedState, answer)])
    /\ relookup' = None
    /\ UNCHANGED <<table, crudVars, engineVars, loaderVars, runs>>

NextParse ==
    \E answer \in ClassifierAnswers : CallParseQueryNode(answer)

InitParse ==
    /\ table \in EngineTables
    /\ lookup = None
    /\ relookup = None
    /\ EngineIdle
    /\ LoaderIdle
    /\ NoOtherRuns
    /\ CrudIdle

SpecParse == InitParse /\ [][NextParse]_vars

\* ------------------------------------- generate_graphviz_dot on one path
\* the paths a caller hands over: None, or up to MaxPath stage names
PathNames == {"start", "parse_query", "error_handler", "end"}
PathArguments == {None} \cup {Some(path) : path \in SeqsUpTo(PathNames, MaxPath)}

CallGenerateGraphvizDot(execution_path) ==
    /\ lookup' = Some([fn |-> "generate_graphviz_dot",
                       execution_path |-> execution_path,
                       result |-> generate_graphviz_dot(execution_path)])
    /\ relookup' = None
    /\ UNCHANGED <<table, crudVars, engineVars, loaderVars, runs>>

InitDot ==
    /\ table = << >>
    /\ lookup = None
    /\ relookup = None
    /\ EngineIdle
    /\ LoaderIdle
    /\ NoOtherRuns
    /\ CrudIdle

NextDot ==
    \E execution_path \in PathArguments : CallGenerateGraphvizDot(execution_path)

SpecDot == InitDot /\ [][NextDot]_vars

\* ------------------------------------ TariffDataLoader.tariffs_df, stepwise
\* rows tariffs.csv can hold, as text: start_time is <<d>> for the ISO date of
\* day d and << >> for text that is no date; a rate above 1, a country and a
\* product type outside the enums occur
CsvRows ==
    {[country |-> "China", product_type |-> "Toys", current_tariff |-> 135,
      start_time |-> <<1>>],
     [country |-> "China", product_type |-> "Toys", current_tariff |-> 1500,
      start_time |-> <<2>>],
     [country |-> "Vietnam", product_type |-> "Toys", current_tariff |-> 80,
      start_time |-> <<1>>],
     [country |-> "France", product_type |-> "Toys", current_tariff |-> 135,
      start_time |-> <<1>>],
     [country |-> "China", product_type |-> "Food", current_tariff |-> 135,
      start_time |-> <<1>>],
     [country |-> "China", product_type |-> "Toys", current_tariff |-> 135,
      start_time |-> << >>]}

\* the file is missing, or holds up to MaxRows rows
CsvFiles == {None} \cup {Some(rows) : rows \in SeqsUpTo(CsvRows, MaxRows)}

\* pd.to_datetime(column) raises on text that is no date
ToDatetimeRaises(rows) == \E i \in 1..Len(rows) : rows[i].start_time = << >>

\* the frame of the file once its start_time column holds dates
Converted(rows) ==
    [i \in 1..Len(rows) |->
        [country |-> rows[i].country, product_type |-> rows[i].product_type,
         current_tariff |-> rows[i].current_tariff,
         start_time |-> rows[i].start_time[1]]]

SetReader(r, position) == rd' = [rd EXCEPT ![r].pc = position]

\* get_tariff_rate line 54 enters the property; line 25: load unless a frame
\* is set and the cache is valid
Access(r) ==
    /\ rd[r].pc = "idle"
    /\ SetReader(r, IF tariffs_df = None \/ ~cache_valid THEN "exists" ELSE "return")
    /\ UNCHANGED <<table, crudVars, storeVars, engineVars, runs, csv_file, frames, tariffs_df, cache_valid>>

\* lines 27-28: FileNotFoundError when the file is missing
Exists(r) ==
    /\ rd[r].pc = "exists"
    /\ SetReader(r, IF csv_file = None THEN "raised" ELSE "read_csv")
    /\ UNCHANGED <<table, crudVars, storeVars, engineVars, runs, csv_file, frames, tariffs_df, cache_valid>>

\* line 30: self._tariffs_df = pd.read_csv(csv_path)
ReadCsv(r) ==
    /\ rd[r].pc = "read_csv"
    /\ frames' = [frames EXCEPT ![r] = "raw"]
    /\ tariffs_df' = Some(r)
    /\ SetReader(r, "to_datetime")
    /\ UNCHANGED <<table, crudVars, storeVars, engineVars, runs, csv_file, cache_valid>>

\* line 32, right-hand side: pd.to_datetime(self._tariffs_df['start_time']).dt.date
ToDatetime(r) ==
    /\ rd[r].pc = "to_datetime"
    /\ rd' = IF ToDatetimeRaises(csv_file[1])
             THEN [rd EXCEPT ![r].pc = "raised"]
             ELSE [rd EXCEPT ![r].pc = "setitem", ![r].column = TRUE]
    /\ UNCHANGED <<table, crudVars, storeVars, engineVars, runs, csv_file, frames, tariffs_df, cache_valid>>

\* line 32, assignment: the column is set on the frame self._tariffs_df
\* refers to at this moment
SetItem(r) ==
    /\ rd[r].pc = "setitem"
    /\ frames' = [frames EXCEPT ![tariffs_df[1]] = "converted"]
    /\ SetReader(r, "validate")
    /\ UNCHANGED <<table, crudVars, storeVars, engineVars, runs, csv_file, tariffs_df, cache_valid>>

\* line 33: self._cache_valid = True
Validate(r) ==
    /\ rd[r].pc = "validate"
    /\ cache_valid' = TRUE
    /\ SetReader(r, "return")
    /\ UNCHANGED <<table, crudVars, storeVars, engineVars, runs, csv_file, frames, tariffs_df>>

\* line 35: return self._tariffs_df; `got` keeps which frame the reader was
\* handed and whether its dates were converted at that moment
Return(r) ==
    /\ rd[r].pc = "return"
    /\ rd' = [rd EXCEPT ![r].pc = "lookup",
                        ![r].got = Some([frame |-> tariffs_df[1],
                                         converted |-> frames[tariffs_df[1]] = "converted"])]
    /\ UNCHANGED <<table, crudVars, storeVars, engineVars, runs, csv_file, frames, tariffs_df, cache_valid>>

\* get_tariff_rate lines 57-82 on the frame handed over.  On a frame whose
\* dates are still text the comparison of dates may raise or may still pick
\* the row: both outcomes are kept.
LookupOn(r, country, product_type) ==
    /\ rd[r].pc = "lookup"
    /\ LET df == Converted(csv_file[1])
           res == get_tariff_rate(df, country, product_type, None)
       IN  \E outcome \in (IF frames[rd[r].got[1].frame] = "converted"
                            THEN {res} ELSE {res, Raised}) :
              rd' = [rd EXCEPT ![r].pc = "done",
                               ![r].result = Some(Call("get_tariff_rate", country,
                                                       product_type, None, outcome))]
    /\ UNCHANGED <<table, crudVars, storeVars, engineVars, runs, csv_file, frames, tariffs_df, cache_valid>>

InitLoad ==
    /\ csv_file \in CsvFiles
    /\ frames = [r \in Readers |-> "none"]
    /\ tariffs_df = None
    /\ cache_valid = FALSE
    /\ rd = [r \in Readers |-> [pc |-> "idle", column |-> FALSE, got |-> None,
                                 result |-> None]]
    /\ table = << >>
    /\ lookup = None
    /\ relookup = None
    /\ EngineIdle
    /\ NoOtherRuns
    /\ CrudIdle

NextLoad ==
    \/ \E r \in Readers : Access(r)
    \/ \E r \in Readers : Exists(r)
    \/ \E r \in Readers : ReadCsv(r)
    \/ \E r \in Readers : ToDatetime(r)
    \/ \E r \in Readers : SetItem(r)
    \/ \E r \in Readers : Validate(r)
    \/ \E r \in Readers : Return(r)
    \/ \E r \in Readers, k \in QueryKeys : LookupOn(r, k[1], k[2])

SpecLoad == InitLoad /\ [][NextLoad]_vars

\* ------------------------------------- execute_node, called in any order
\* the node names a caller may pass: the registered ones and one that is not
NodeNames == NodeRegistry \cup {"unknown_node"}

\* an AgentState is created
NewAgentState ==
    /\ pc = "idle"
    /\ pc' = "calls"
    /\ state' = Some(InitialState)
    /\ iteration' = 0
    /\ UNCHANGED <<table, crudVars, storeVars, loaderVars, runs, current_node, invoked,
                   raised_in, returned>>

\* state = execute_node(state, node_name); the call is recorded with the
\* state it was made on, and current_node is what the loop body of
\* run_dynamic_analysis (lines 134-159) chooses after it
ExecuteNode(node_name) ==
    /\ pc = "calls"
    /\ iteration < MaxCalls
    /\ \E e \in execute_node(state[1], node_name, table) :
          /\ state' = Some(e.st)
          /\ invoked' = IF e.called THEN Append(invoked, node_name) ELSE invoked
          /\ raised_in' = IF e.raised THEN raised_in \cup {node_name} ELSE raised_in
          /\ current_node' = LoopAdvance(node_name, iteration, e.st).current_node
          /\ iteration' = LoopAdvance(node_name, iteration, e.st).iteration
          /\ lookup' = Some([fn |-> "execute_node", node_name |-> node_name,
                             before |-> state[1], result |-> e])
    /\ UNCHANGED <<table, crudVars, relookup, loaderVars, runs, pc, returned>>

InitExec ==
    /\ table = << >>
    /\ lookup = None
    /\ relookup = None
    /\ EngineIdle
    /\ LoaderIdle
    /\ NoOtherRuns
    /\ CrudIdle

NextExec ==
    \/ NewAgentState
    \/ \E node_name \in NodeNames : ExecuteNode(node_name)

SpecExec == InitExec /\ [][NextExec]_vars

\* ------------------------------------------- run_dynamic_analysis, stepwise
\* a request arrives: the AgentState is created and the loop is entered
RunDynamicAnalysis ==
    /\ pc = "idle"
    /\ pc' = "loop"
    /\ state' = Some(InitialState)
    /\ current_node' = "start"
    /\ iteration' = 0
    /\ UNCHANGED <<table, crudVars, storeVars, loaderVars, runs, invoked, raised_in, returned>>

\* one pass of the while loop with current_node = node_name
LoopStep(node_name) ==
    /\ pc = "loop"
    /\ current_node = node_name
    /\ LoopContinues(current_node, iteration)
    /\ \E e \in execute_node(state[1], current_node, table) :
          /\ state' = Some(e.st)
          /\ invoked' = IF e.called THEN Append(invoked, current_node) ELSE invoked
          /\ raised_in' = IF e.raised THEN raised_in \cup {current_node} ELSE raised_in
          /\ current_node' = LoopAdvance(current_node, iteration, e.st).current_node
          /\ iteration' = LoopAdvance(current_node, iteration, e.st).iteration
    /\ UNCHANGED <<table, crudVars, storeVars, loaderVars, runs, pc, returned>>

RunStart == LoopStep("start")
RunParseQuery == LoopStep("parse_query")
RunTariffLookup == LoopStep("tariff_lookup")
RunDataSummary == LoopStep("data_summary")
RunResponseFormatter == LoopStep("response_formatter")
RunErrorHandler == LoopStep("error_handler")

\* faulty variant: the result is returned without executing end
Finalize_skips_end ==
    /\ pc = "loop"
    /\ ~LoopContinues(current_node, iteration)
    /\ returned' = Some(ReturnValue(state[1]))
    /\ pc' = "done"
    /\ UNCHANGED <<table, crudVars, storeVars, loaderVars, runs, current_node, iteration,
                   state, invoked, raised_in>>

\* the loop is left: the end node is executed and the result returned
Finalize ==
    /\ pc = "loop"
    /\ ~LoopContinues(current_node, iteration)
    /\ \E e \in execute_node(state[1], "end", table) :
          /\ state' = Some(e.st)
          /\ invoked' = IF e.called THEN Append(invoked, "end") ELSE invoked
          /\ raised_in' = IF e.raised THEN raised_in \cup {"end"} ELSE raised_in
          /\ returned' = Some(ReturnValue(e.st))
    /\ pc' = "done"
    /\ UNCHANGED <<table, crudVars, storeVars, loaderVars, runs, current_node, iteration>>

Init ==
    /\ table \in EngineTables
    /\ lookup = None
    /\ relookup = None
    /\ EngineIdle
    /\ LoaderIdle
    /\ NoOtherRuns
    /\ CrudIdle

RunProgress ==
    \/ RunStart
    \/ RunParseQuery
    \/ RunTariffLookup
    \/ RunDataSummary
    \/ RunResponseFormatter
    \/ RunErrorHandler
    \/ Finalize

Next ==
    \/ RunDynamicAnalysis
    \/ RunStart
    \/ RunParseQuery
    \/ RunTariffLookup
    \/ RunDataSummary
    \/ RunResponseFormatter
    \/ RunErrorHandler
    \/ Finalize

Spec == Init /\ [][Next]_vars

\* a run is sequential and synchronous: once started, its next step is taken
LiveSpec == Spec /\ WF_vars(RunProgress)

\* --------------------------------- the loop under a cyclic routing table
\* the routing table the non-convergence claim supposes: start is followed by
\* start again.  The table of run_dynamic_analysis itself (IntentRoute) has
\* no cycle, so a run of Spec never comes near the ceiling.
CyclicRoute(cur, st) == IF cur = "start" THEN "start" ELSE IntentRoute(cur, st)

\* one pass of the while loop (lines 128-159) with the cyclic table in place
\* of lines 139-159: the guard, the count, execute_node and the error
\* short-circuit are those of run_dynamic_analysis
CyclicStep ==
    /\ pc = "loop"
    /\ LoopContinues(current_node, iteration)
    /\ \E e \in execute_node(state[1], current_node, table) :
          /\ state' = Some(e.st)
          /\ invoked' = IF e.called THEN Append(invoked, current_node) ELSE invoked
          /\ raised_in' = IF e.raised THEN raised_in \cup {current_node} ELSE raised_in
          /\ current_node' = IF Truthy(e.st.error) /\ current_node # "error_handler"
                              THEN "error_handler"
                              ELSE CyclicRoute(current_node, e.st)
          /\ iteration' = iteration + 1
    /\ UNCHANGED <<table, crudVars, storeVars, loaderVars, runs, pc, returned>>

NextCyclic ==
    \/ RunDynamicAnalysis
    \/ CyclicStep
    \/ Finalize

SpecCyclic == Init /\ [][NextCyclic]_vars

\* ------------------------- concurrent invocations of run_dynamic_analysis
\* the tables of the concurrent specification: no row, and one key with a
\* zero rate followed by a rate above it
IsolationTables ==
    {<< >>,
     <<[country |-> "China", product_type |-> "Toys", current_tariff |-> 0,
        start_time |-> 1],
       [country |-> "China", product_type |-> "Toys", current_tariff |-> 135,
        start_time |-> 2]>>}

\* an invocation that has not been made yet
NoRun ==
    [pc |-> "idle", state |-> None, current_node |-> "start", iteration |-> 0,
     invoked |-> << >>, raised_in |-> {}, returned |-> None, overlapped |-> FALSE]

\* faulty variant: the AgentState is kept on the shared pipeline instance by
\* the first invocation in progress, and every invocation works on that one
RunState_on_instance(rs, r) ==
    IF \E q \in RunIds : rs[q].pc = "loop"
    THEN rs[CHOOSE q \in RunIds : rs[q].pc = "loop" /\ \A p \in RunIds :
                                       rs[p].pc = "loop" => q <= p].state[1]
    ELSE rs[r].state[1]

\* the AgentState invocation r hands to execute_node: its local `state`
\* (lines 114-118, 132), which no other invocation can reach
RunState(rs, r) == rs[r].state[1]

\* some invocation other than r is inside its loop
OthersInLoop(r) == \E q \in RunIds \ {r} : runs[q].pc = "loop"

\* invocation r is made: lines 114-126
StartRun(r) ==
    /\ runs[r].pc = "idle"
    /\ runs' = [runs EXCEPT ![r] = [NoRun EXCEPT !.pc = "loop",
                                                 !.state = Some(InitialState)]]
    /\ UNCHANGED <<table, crudVars, storeVars, engineVars, loaderVars>>

\* one pass of invocation r's while loop: lines 128-159
StepRun(r) ==
    /\ runs[r].pc = "loop"
    /\ LoopContinues(runs[r].current_node, runs[r].iteration)
    /\ \E e \in execute_node(RunState(runs, r), runs[r].current_node, table) :
          LET cur == runs[r].current_node
              adv == LoopAdvance(cur, runs[r].iteration, e.st)
          IN  runs' = [runs EXCEPT ![r] =
                  [@ EXCEPT !.state = Some(e.st),
                            !.invoked = IF e.called THEN Append(@, cur) ELSE @,
                            !.raised_in = IF e.raised THEN @ \cup {cur} ELSE @,
                            !.current_node = adv.current_node,
                            !.iteration = adv.iteration,
                            !.overlapped = @ \/ OthersInLoop(r)]]
    /\ UNCHANGED <<table, crudVars, storeVars, engineVars, loaderVars>>

\* invocation r leaves its loop, executes end and returns: lines 161-185
FinishRun(r) ==
    /\ runs[r].pc = "loop"
    /\ ~LoopContinues(runs[r].current_node, runs[r].iteration)
    /\ \E e \in execute_node(RunState(runs, r), "end", table) :
          runs' = [runs EXCEPT ![r] =
              [@ EXCEPT !.state = Some(e.st),
                        !.invoked = IF e.called THEN Append(@, "end") ELSE @,
                        !.raised_in = IF e.raised THEN @ \cup {"end"} ELSE @,
                        !.returned = Some(ReturnValue(e.st)),
                        !.pc = "done"]]
    /\ UNCHANGED <<table, crudVars, storeVars, engineVars, loaderVars>>

InitRuns ==
    /\ table \in IsolationTables
    /\ runs = [r \in RunIds |-> NoRun]
    /\ lookup = None
    /\ relookup = None
    /\ EngineIdle
    /\ LoaderIdle
    /\ CrudIdle

NextRuns ==
    \/ \E r \in RunIds : StartRun(r)
    \/ \E r \in RunIds : StepRun(r)
    \/ \E r \in RunIds : FinishRun(r)

SpecRuns == InitRuns /\ [][NextRuns]_vars

\* ------------------------------------- crud_server's requests, stepwise
\* the files the table starts from: up to MaxStored rows under a header with
\* or without the optional field
StoredFiles ==
    {CsvFile({}, << >>)} \cup
    {CsvFile(header, [i \in 1..n |-> CrudRow(header, 10 + i)]) :
        header \in {{"market_id"}, {"market_id", "population"}}, n \in 1..MaxStored}

\* the JSON bodies client t sends: without the required fields, with them,
\* with the optional field, with a field the rules do not list
Bodies(t) ==
    {CrudRow(fields, t) :
        fields \in {{}, {"market_id"}, {"market_id", "population"},
                    {"market_id", "comment"}}}

RowIds == 0..MaxStored

Answered(rq, status) == [rq EXCEPT !.pc = "done", !.status = status]

\* create_row up to the validation: 400 when it fails
CreateRow(t, body) ==
    /\ requests[t].pc = "idle"
    /\ requests' = [requests EXCEPT ![t] =
          LET rq == [@ EXCEPT !.op = "create_row", !.body = body]
          IN  IF validate_data(body) THEN [rq EXCEPT !.pc = "read"]
              ELSE Answered(rq, 400)]
    /\ UNCHANGED <<table, storeVars, engineVars, loaderVars, runs, table_csv>>

\* update_row up to the validation: 400 when it fails
UpdateRow(t, row_id, body) ==
    /\ requests[t].pc = "idle"
    /\ requests' = [requests EXCEPT ![t] =
          LET rq == [@ EXCEPT !.op = "update_row", !.row_id = row_id, !.body = body]
          IN  IF validate_data(body) THEN [rq EXCEPT !.pc = "read"]
              ELSE Answered(rq, 400)]
    /\ UNCHANGED <<table, storeVars, engineVars, loaderVars, runs, table_csv>>

\* delete_row is received; it validates nothing
DeleteRow(t, row_id) ==
    /\ requests[t].pc = "idle"
    /\ requests' = [requests EXCEPT ![t] =
          [@ EXCEPT !.op = "delete_row", !.row_id = row_id, !.pc = "read"]]
    /\ UNCHANGED <<table, storeVars, engineVars, loaderVars, runs, table_csv>>

\* data.pop(row_id)
Pop(data, row_id) ==
    [i \in 1..(Len(data) - 1) |-> IF i <= row_id THEN data[i] ELSE data[i + 1]]

\* data = read_csv_data(table_name) and the change made to the list in
\* memory; 404 when row_id is not an index of it
ReadCsvData(t) ==
    /\ requests[t].pc = "read"
    /\ LET rq == requests[t]
           data == read_csv_data(table_csv)
       IN  requests' = [requests EXCEPT ![t] =
             IF rq.op = "create_row"
             THEN [rq EXCEPT !.pc = "write", !.data = Append(data, rq.body)]
             ELSE IF rq.row_id >= Len(data) THEN Answered(rq, 404)
             ELSE IF rq.op = "update_row"
             THEN [rq EXCEPT !.pc = "write",
                             !.data = [data EXCEPT ![rq.row_id + 1] = rq.body]]
             ELSE [rq EXCEPT !.pc = "write", !.data = Pop(data, rq.row_id)]]
    /\ UNCHANGED <<table, storeVars, engineVars, loaderVars, runs, table_csv>>

\* write_csv_data(table_name, data) and the answer: 500 when it raised, else
\* 201 with row_id = len(data) - 1 for create_row, 200 for the others
WriteCsvData(t) ==
    /\ requests[t].pc = "write"
    /\ LET rq == requests[t]
           written == write_csv_data(rq.data)
       IN  /\ table_csv' = written.file
           /\ requests' = [requests EXCEPT ![t] =
                 IF written.raised THEN Answered(rq, 500)
                 ELSE IF rq.op = "create_row"
                 THEN [Answered(rq, 201) EXCEPT !.answered_row_id = Len(rq.data) - 1]
                 ELSE Answered(rq, 200)]
    /\ UNCHANGED <<table, storeVars, engineVars, loaderVars, runs>>

InitCrud ==
    /\ table = << >>
    /\ lookup = None
    /\ relookup = None
    /\ EngineIdle
    /\ LoaderIdle
    /\ NoOtherRuns
    /\ table_csv \in StoredFiles
    /\ requests = [t \in Clients |-> NoRequest]

NextCrud ==
    \/ \E t \in Clients : \E body \in Bodies(t) : CreateRow(t, body)
    \/ \E t \in Clients, row_id \in RowIds : \E body \in Bodies(t) :
          UpdateRow(t, row_id, body)
    \/ \E t \in Clients, row_id \in RowIds : DeleteRow(t, row_id)
    \/ \E t \in Clients : ReadCsvData(t)
    \/ \E t \in Clients : WriteCsvData(t)

SpecCrud == InitCrud /\ [][NextCrud]_vars

\* ====================================================== claims on the engine
Last(s) == s[Len(s)]

ClassifiedAs(intent) ==
    /\ state # None
    /\ state[1].parsed_query # None
    /\ state[1].parsed_query[1].intent = intent

\* C1: a run whose classification returned intent unsupported and in which no
\* stage raised returns the path start, parse_query, error_handler, end, the
\* guidance text as response, and no error.
C1_UnsupportedRun ==
    (pc = "done" /\ ClassifiedAs("unsupported") /\ raised_in = {})
    => /\ returned[1].execution_path = <<"start", "parse_query", "error_handler", "end">>
       /\ returned[1].response = Some("Troubleshooting tips")
       /\ returned[1].error = None

C1_Witness ==
    /\ pc = "done"
    /\ ClassifiedAs("unsupported")
    /\ raised_in = {}
    /\ invoked = <<"start", "parse_query", "error_handler", "end">>
    /\ returned[1].error = None

\* the run has returned to its caller after executing end, with a response
\* that response_formatter or error_handler produced
ReturnedWithResponse ==
    /\ pc = "done"
    /\ returned # None
    /\ returned[1].response # None
    /\ returned[1].current_node = "end"
    /\ Last(invoked) = "end"
    /\ SeqRange(invoked) \cap {"response_formatter", "error_handler"} # {}

\* C2: whichever stage raises or sets state.error, the exception stays inside
\* execute_node (the run goes on with state.error set), and the run returns to
\* its caller after executing end with a response that is not None.
C2_AlwaysResponds ==
    /\ pc = "loop" /\ invoked # << >> /\ Last(invoked) \in raised_in
          => state[1].error # None
    /\ pc = "done" => ReturnedWithResponse

C2_Witness ==
    /\ ReturnedWithResponse
    /\ "response_formatter" \in raised_in
    /\ returned[1].response = Some("Troubleshooting tips")

\* a stage other than error_handler has just finished and left state.error set
FailedStageFinished ==
    /\ pc = "loop"
    /\ invoked # << >>
    /\ Last(invoked) # "error_handler"
    /\ Truthy(state[1].error)

\* C3: when a stage other than error_handler finishes with state.error set, by
\* raising or by assignment, the next stage the engine executes is
\* error_handler.
C3_ErrorShortCircuit ==
    [][FailedStageFinished =>
          /\ current_node = "error_handler"
          /\ LoopContinues(current_node, iteration)
          /\ Len(invoked') > Len(invoked) => Last(invoked') = "error_handler"]_vars

C3_Witness ==
    /\ invoked = <<"start", "parse_query", "tariff_lookup", "error_handler">>
    /\ raised_in = {}
    /\ ClassifiedAs("tariff_rate")

\* the stage functions the loop has called
LoopCalls == SelectSeq(invoked, LAMBDA n : n # "end")

\* C4: whatever the stages return or raise, the loop makes at most 20 stage
\* invocations, after which end is executed and the run returns.
C4_Terminates ==
    /\ [](/\ iteration <= max_iterations
          /\ Len(LoopCalls) <= max_iterations
          /\ pc = "done" => Last(invoked) = "end")
    /\ (pc = "loop") ~> (pc = "done")

C4_Witness ==
    /\ pc = "done"
    /\ invoked = <<"start", "parse_query", "tariff_lookup", "response_formatter",
                   "error_handler", "end">>
    /\ iteration = 5

\* ======================================================= claims on the store

\* the rows of a key, their dates, and the rows a TariffData may come from
KeyRows(country, product_type) == SeqRange(FilterKey(table, country, product_type))
KeyDates(country, product_type) == {r.start_time : r \in KeyRows(country, product_type)}
MaxOf(S) == CHOOSE x \in S : \A y \in S : y <= x
MinOf(S) == CHOOSE x \in S : \A y \in S : y >= x
IsRowOf(data, rows) ==
    \E r \in rows : /\ r.start_time = data.start_time
                    /\ r.current_tariff = data.current_tariff
                    /\ r.country = data.country
                    /\ r.product_type = data.product_type

\* the lookup in `lookup` returned a current record dated d taken from its key's rows
CurrentIsDated(call, d) ==
    /\ ~call.result.raised
    /\ call.result.current # None
    /\ call.result.current[1].start_time = d
    /\ IsRowOf(call.result.current[1], KeyRows(call.country, call.product_type))

\* C5: get_tariff_rate without as_of_date, on a key that has records, returns
\* the record of that key with the maximum effective date.
C5_LatestWithoutAsOf ==
    \A c \in SeqRange(lookup) :
        (/\ c.fn = "get_tariff_rate"
         /\ c.as_of_date = None
         /\ KeyRows(c.country, c.product_type) # {})
        => CurrentIsDated(c, MaxOf(KeyDates(c.country, c.product_type)))

C5_Witness ==
    /\ lookup # None
    /\ lookup[1].fn = "get_tariff_rate"
    /\ lookup[1].as_of_date = None
    /\ Cardinality(KeyDates(lookup[1].country, lookup[1].product_type)) >= 2
    /\ table[1].country = lookup[1].country
    /\ table[1].start_time = MaxOf(KeyDates(lookup[1].country, lookup[1].product_type))
    /\ lookup[1].result.current # None

\* the dates of a key's rows that are not after d
DatesUpTo(country, product_type, d) ==
    {x \in KeyDates(country, product_type) : x <= d}

\* C6: get_tariff_rate with an as_of_date that some record of the key does not
\* exceed returns the record with the maximum effective date <= as_of_date, and
\* a later as_of_date that reaches no further record returns the same record.
C6_AsOfAndStability ==
    \A c \in SeqRange(lookup) :
        (/\ c.fn = "get_tariff_rate"
         /\ c.as_of_date # None
         /\ DatesUpTo(c.country, c.product_type, c.as_of_date[1]) # {})
        => /\ CurrentIsDated(c, MaxOf(DatesUpTo(c.country, c.product_type, c.as_of_date[1])))
           /\ \A r \in SeqRange(relookup) :
                 (DatesUpTo(r.country, r.product_type, r.as_of_date[1])
                    = DatesUpTo(c.country, c.product_type, c.as_of_date[1]))
                 => r.result = c.result

C6_Witness ==
    /\ lookup # None /\ relookup # None
    /\ lookup[1].as_of_date # None
    /\ LET c == lookup[1]
           r == relookup[1]
       IN  /\ DatesUpTo(c.country, c.product_type, c.as_of_date[1]) # {}
           /\ DatesUpTo(r.country, r.product_type, r.as_of_date[1])
                = DatesUpTo(c.country, c.product_type, c.as_of_date[1])
           /\ \E d \in KeyDates(c.country, c.product_type) : d > r.as_of_date[1]
           /\ r.result.current # None
           /\ r.result.current[1].start_time < r.as_of_date[1]

\* C7: when the key has records and all of them are dated after as_of_date,
\* get_tariff_rate and the current of get_tariff_with_history are the record
\* with the minimum effective date of the key, not "no data".
C7_EarliestFallback ==
    \A c \in SeqRange(lookup) :
        (/\ c.as_of_date # None
         /\ KeyRows(c.country, c.product_type) # {}
         /\ DatesUpTo(c.country, c.product_type, c.as_of_date[1]) = {})
        => CurrentIsDated(c, MinOf(KeyDates(c.country, c.product_type)))

C7_Witness ==
    /\ lookup # None
    /\ lookup[1].fn = "get_tariff_with_history"
    /\ lookup[1].as_of_date # None
    /\ Cardinality(KeyDates(lookup[1].country, lookup[1].product_type)) >= 2
    /\ DatesUpTo(lookup[1].country, lookup[1].product_type, lookup[1].as_of_date[1]) = {}
    /\ table[1].country = lookup[1].country
    /\ table[1].start_time = MaxOf(KeyDates(lookup[1].country, lookup[1].product_type))
    /\ lookup[1].result.current # None

\* C8: a lookup returns None (get_tariff_rate), respectively (None, None)
\* (get_tariff_with_history), exactly when the key has no record, and a lookup
\* of a key without records does not raise.
C8_NoneIffNoRecords ==
    \A c \in SeqRange(lookup) :
        LET empty == KeyRows(c.country, c.product_type) = {}
        IN  /\ empty => ~c.result.raised
            /\ (~c.result.raised /\ c.result.current = None) <=> empty
            /\ (~c.result.raised /\ c.result.current = None /\ c.result.previous = None)
                 <=> empty

C8_Witness ==
    /\ lookup # None
    /\ lookup[1].fn = "get_tariff_with_history"
    /\ lookup[1].as_of_date # None
    /\ table # << >>
    /\ KeyRows(lookup[1].country, lookup[1].product_type) = {}
    /\ lookup[1].result = Returned(None, None)

\* C9: get_tariff_with_history never returns a previous record whose effective
\* date is on or after the effective date of the current record it returns.
C9_PreviousStrictlyEarlier ==
    \A c \in SeqRange(lookup) :
        (/\ c.fn = "get_tariff_with_history"
         /\ ~c.result.raised
         /\ c.result.previous # None)
        => c.result.previous[1].start_time < c.result.current[1].start_time

\* the rows of the call's key that its as_of_date leaves visible
VisibleRows(c) ==
    IF c.as_of_date = None THEN KeyRows(c.country, c.product_type)
    ELSE {r \in KeyRows(c.country, c.product_type) : r.start_time <= c.as_of_date[1]}

\* C10: the previous of get_tariff_with_history is the visible record with the
\* largest effective date strictly before the current record's, and is None
\* when no such record exists (the current record is the earliest of its key).
C10_PreviousIsLatestEarlier ==
    \A c \in SeqRange(lookup) :
        (/\ c.fn = "get_tariff_with_history"
         /\ ~c.result.raised
         /\ c.result.current # None)
        => LET earlier == {r \in VisibleRows(c) :
                              r.start_time < c.result.current[1].start_time}
           IN  IF earlier = {} THEN c.result.previous = None
               ELSE /\ c.result.previous # None
                    /\ IsRowOf(c.result.previous[1], earlier)
                    /\ c.result.previous[1].start_time
                         = MaxOf({r.start_time : r \in earlier})

\* no key of the table has two rows with the same effective date
UniqueDates ==
    \A i, j \in 1..Len(table) :
        (/\ table[i].country = table[j].country
         /\ table[i].product_type = table[j].product_type
         /\ table[i].start_time = table[j].start_time) => i = j

\* ============================================== claims on the lookup result

\* the calls of lookup_tariff recorded in `lookup`
LookupTariffCalls == {c \in SeqRange(lookup) : c.fn = "lookup_tariff"}

\* the store resolves a previous record for the call's key: without an
\* as_of_date, when the key has more than one row
PreviousResolved(c) == Len(FilterKey(table, c.country, c.product_type)) > 1

\* C11: in every result of lookup_tariff, trend, rate_change and
\* rate_change_percentage are all three present if the store resolved a
\* previous record and all three absent if it did not, also when the previous
\* rate is 0.
C11_AllThreeIffPrevious ==
    \A c \in LookupTariffCalls :
        IF PreviousResolved(c)
        THEN /\ c.result.trend # None
             /\ c.result.rate_change # None
             /\ c.result.rate_change_percentage # None
        ELSE /\ c.result.trend = None
             /\ c.result.rate_change = None
             /\ c.result.rate_change_percentage = None

\* C11, amended: trend and rate_change are present exactly when the store
\* resolved a previous record; rate_change_percentage is present exactly when
\* it did and the previous rate is greater than 0.
C11_ChangeFieldsIffPrevious ==
    \A c \in LookupTariffCalls :
        IF PreviousResolved(c)
        THEN /\ c.result.previous_rate # None
             /\ c.result.trend # None
             /\ c.result.rate_change # None
             /\ c.result.rate_change_percentage # None <=> c.result.previous_rate[1] > 0
        ELSE /\ c.result.previous_rate = None
             /\ c.result.trend = None
             /\ c.result.rate_change = None
             /\ c.result.rate_change_percentage = None

C11_Witness ==
    \E c \in LookupTariffCalls :
        /\ PreviousResolved(c)
        /\ c.result.previous_rate = Some(0)
        /\ c.result.tariff_rate = 135
        /\ c.result.trend = Some("increased")
        /\ c.result.rate_change = Some(135)
        /\ c.result.rate_change_percentage = None

\* C12: a result with a previous rate has trend "increased" exactly when the
\* current rate is greater, "decreased" exactly when it is smaller, and
\* "unchanged" exactly when the two are equal.
C12_TrendByStrictComparison ==
    \A c \in LookupTariffCalls :
        c.result.previous_rate # None
        => LET current == c.result.tariff_rate
               previous == c.result.previous_rate[1]
           IN  /\ c.result.trend \in {Some("increased"), Some("decreased"), Some("unchanged")}
               /\ c.result.trend = Some("increased") <=> current > previous
               /\ c.result.trend = Some("decreased") <=> current < previous
               /\ c.result.trend = Some("unchanged") <=> current = previous

C12_Witness ==
    \E c \in LookupTariffCalls :
        /\ c.result.previous_rate = Some(80)
        /\ c.result.tariff_rate = 80
        /\ c.result.trend = Some("unchanged")

Abs(n) == IF n < 0 THEN -n ELSE n

\* C13: a result with a previous rate has rate_change = current - previous;
\* its rate_change_percentage is (current - previous) / previous * 100 to the
\* nearest hundredth when the previous rate is above 0 and is absent when the
\* previous rate is 0; previous 0.08 and current 0.135 give "increased", 68.75.
C13_ChangeValues ==
    \A c \in LookupTariffCalls :
        c.result.previous_rate # None
        => LET current == c.result.tariff_rate
               previous == c.result.previous_rate[1]
               pct == c.result.rate_change_percentage
           IN  /\ c.result.rate_change = Some(current - previous)
               /\ previous = 0 => pct = None
               /\ previous > 0 =>
                     /\ pct # None
                     /\ 2 * Abs(pct[1] * previous - (current - previous) * 10000) <= previous
               /\ (previous = 80 /\ current = 135) =>
                     /\ c.result.trend = Some("increased")
                     /\ pct = Some(6875)

C13_Witness ==
    \E c \in LookupTariffCalls :
        /\ c.result.previous_rate = Some(80)
        /\ c.result.tariff_rate = 135
        /\ c.result.rate_change = Some(55)
        /\ c.result.rate_change_percentage = Some(6875)

\* ============================================ claims on the engine's routing

\* stage `name` is the stage the loop has just executed
JustExecuted(name) ==
    /\ pc = "loop"
    /\ invoked # << >>
    /\ Last(invoked) = name

\* tariff_lookup has just run for a tariff_rate query naming a country and a
\* product type of which the table has no row
LookupMissed ==
    /\ JustExecuted("tariff_lookup")
    /\ ClassifiedAs("tariff_rate")
    /\ state[1].parsed_query[1].country # None
    /\ state[1].parsed_query[1].product_type # None
    /\ KeyRows(state[1].parsed_query[1].country[1],
               state[1].parsed_query[1].product_type[1]) = {}

\* C14: for a tariff_rate query on a key without records, tariff_lookup
\* raises nothing, leaves a TariffResult with found = False and a message,
\* leaves state.error unset, and the loop goes on with response_formatter.
C14_LookupMissIsNotAnError ==
    LookupMissed
    => /\ "tariff_lookup" \notin raised_in
       /\ state[1].tariff_result # None
       /\ ~state[1].tariff_result[1].found
       /\ state[1].tariff_result[1].message = Some("No tariff data found")
       /\ state[1].error = None
       /\ current_node = "response_formatter"
       /\ LoopContinues(current_node, iteration)

C14_Witness ==
    /\ LookupMissed
    /\ table # << >>
    /\ state[1].tariff_result # None
    /\ ~state[1].tariff_result[1].found
    /\ current_node = "response_formatter"

\* parse_query answered a failure of the classifier (the call raised, or its
\* answer did not fit the enums)
ClassificationFailed ==
    /\ state # None
    /\ state[1].parsed_query # None
    /\ state[1].parsed_query[1].parsed_entities_error

\* C15: when the classifier fails, the stage executed after parse_query is
\* error_handler, the run never executes tariff_lookup or data_summary, and
\* the response returned is the guidance text.
C15_ClassificationFailureHandled ==
    ClassificationFailed
    => /\ JustExecuted("parse_query") => current_node = "error_handler"
       /\ SeqRange(invoked) \cap {"tariff_lookup", "data_summary"} = {}
       /\ pc = "done" => returned[1].response = Some("Troubleshooting tips")

\* the transition table of the claim
TableNext(cur, st) ==
    CASE cur = "start" -> "parse_query"
      [] cur = "parse_query" ->
            IF st.parsed_query = None THEN "error_handler"
            ELSE (CASE st.parsed_query[1].intent = "tariff_rate" -> "tariff_lookup"
                    [] st.parsed_query[1].intent = "comparison" -> "tariff_lookup"
                    [] st.parsed_query[1].intent = "general_info" -> "data_summary"
                    [] st.parsed_query[1].intent = "unsupported" -> "error_handler")
      [] cur = "tariff_lookup" -> "response_formatter"
      [] cur = "data_summary" -> "response_formatter"
      [] cur = "response_formatter" -> "end"

TableStages == {"start", "parse_query", "tariff_lookup", "data_summary",
                "response_formatter"}

\* C16: after a stage of the table finished with no error set, the loop's
\* next stage is the one the table gives: parse_query after start;
\* tariff_lookup, data_summary or error_handler after parse_query by intent
\* (error_handler also without a parsed query); response_formatter after
\* tariff_lookup and data_summary; end after response_formatter.
C16_TransitionTable ==
    /\ \A cur \in TableStages :
          (JustExecuted(cur) /\ ~Truthy(state[1].error))
          => current_node = TableNext(cur, state[1])
    /\ NextNode("parse_query", InitialState) = "error_handler"

C16_Witness ==
    /\ JustExecuted("parse_query")
    /\ ClassifiedAs("comparison")
    /\ ~Truthy(state[1].error)
    /\ current_node = "tariff_lookup"

\* the loop was left at the ceiling with a current node other than end
CeilingReached ==
    /\ pc = "done"
    /\ iteration = max_iterations
    /\ current_node # "end"

SourceRejected ==
    \/ csv_file = None
    \/ \E i \in 1..Len(csv_file[1]) :
          LET row == csv_file[1][i]
          IN  \/ row.current_tariff < 0 \/ row.current_tariff > 1000
              \/ row.start_time = << >>
              \/ row.country \notin Country
              \/ row.product_type \notin ProductType

\* C18: when the source is missing or holds a row that fails validation, no
\* access to tariffs_df hands out a table (every access raises), and no
\* lookup returns a record of that source.
C18_LoadAllOrNothing ==
    SourceRejected
    => \A r \in Readers :
          /\ rd[r].got = None
          /\ rd[r].pc \notin {"return", "lookup", "done"}
          /\ \A c \in SeqRange(rd[r].result) : c.result.current = None

\* C19: whatever the interleaving of the readers, the table a reader obtains
\* from tariffs_df has its start_time column converted when it is handed over.
C19_NoPartialTable ==
    \A r \in Readers : \A g \in SeqRange(rd[r].got) : g.converted

\* ================================================== claims on concurrent runs

\* what an invocation executed alone can do on table df from the point where
\* its loop holds st, cur and it: the stages it invokes from there on (after
\* inv), those that raise (besides rin), and the dictionary it returns
RECURSIVE AloneFrom(_, _, _, _, _, _)
AloneFrom(st, cur, it, inv, rin, df) ==
    IF LoopContinues(cur, it)
    THEN UNION {AloneFrom(e.st, LoopAdvance(cur, it, e.st).current_node,
                          LoopAdvance(cur, it, e.st).iteration,
                          IF e.called THEN Append(inv, cur) ELSE inv,
                          IF e.raised THEN rin \cup {cur} ELSE rin, df) :
                   e \in execute_node(st, cur, df)}
    ELSE {[invoked |-> IF e.called THEN Append(inv, "end") ELSE inv,
           raised_in |-> IF e.raised THEN rin \cup {"end"} ELSE rin,
           returned |-> ReturnValue(e.st)] : e \in execute_node(st, "end", df)}

\* every complete run of one invocation executed alone, per table
AloneRuns ==
    [df \in IsolationTables |-> AloneFrom(InitialState, "start", 0, << >>, {}, df)]

\* what invocation r did: the stages it invoked, those that raised, and the
\* dictionary it returned
RunOf(r) ==
    [invoked |-> runs[r].invoked, raised_in |-> runs[r].raised_in,
     returned |-> runs[r].returned[1]]

\* C20: each of two interleaved invocations on the shared pipeline returns
\* the execution_path, node_timings keys, response and error (the whole
\* dictionary) that an invocation executed alone returns when it invokes the
\* same stages with the same outcomes.
C20_RunIsolation ==
    \A r \in RunIds : runs[r].pc = "done" => RunOf(r) \in AloneRuns[table]

C20_Witness ==
    /\ runs[1].pc = "done" /\ runs[2].pc = "done"
    /\ runs[1].overlapped /\ runs[2].overlapped
    /\ runs[1].returned[1].execution_path
         = <<"start", "parse_query", "error_handler", "end">>
    /\ runs[2].returned[1].execution_path
         = <<"start", "parse_query", "tariff_lookup", "response_formatter", "end">>
    /\ runs[2].returned[1].tariff_info # None
    /\ runs[1].returned[1].tariff_info = None
    /\ RunOf(1) \in AloneRuns[table]
    /\ RunOf(2) \in AloneRuns[table]

\* ============================================ claims on the classifier's answer

ParseCalls == {c \in SeqRange(lookup) : c.fn = "parse_query_node"}

\* a field of the classifier's answer as the parsed query has to keep it:
\* absent when outside the enum
Normalized(field, enum) == IF field # None /\ field[1] \in enum THEN field ELSE None

\* C21: when the classifier answers a valid intent with a country or a
\* product_type outside the enums, parse_query_node raises nothing and sets no
\* error, and the parsed query keeps the intent and the valid field, with
\* only the unknown field absent.
C21_UnknownFieldNormalized ==
    \A c \in ParseCalls :
        (/\ ~c.answer.failed
         /\ c.answer.intent \in QueryIntent
         /\ \/ c.answer.country # Normalized(c.answer.country, Country)
            \/ c.answer.product_type # Normalized(c.answer.product_type, ProductType))
        => /\ ~c.result.raised
           /\ c.result.st.error = None
           /\ c.result.st.parsed_query # None
           /\ c.result.st.parsed_query[1].intent = c.answer.intent
           /\ c.result.st.parsed_query[1].country
                = Normalized(c.answer.country, Country)
           /\ c.result.st.parsed_query[1].product_type
                = Normalized(c.answer.product_type, ProductType)

\* ================================================ claims on the trace rendering

DotCalls == {c \in SeqRange(lookup) : c.fn = "generate_graphviz_dot"}

\* the EXECUTED edges of a DOT text, and its node and edge definitions
MarkedEdges(lines) == SelectSeq(lines, LAMBDA l : l.kind = "edge" /\ l.executed)
StaticGraph(lines) ==
    SelectSeq(lines, LAMBDA l : l.kind = "node" \/ (l.kind = "edge" /\ ~l.executed))

\* C22: for a path of n stage names generate_graphviz_dot emits one EXECUTED
\* edge per pair of consecutive entries, n - 1 in path order; none for None or
\* an empty path; the node and edge definitions are those emitted without a
\* path.
C22_TraceRendering ==
    \A c \in DotCalls :
        LET marked == MarkedEdges(c.result)
            path == IF c.execution_path = None THEN << >> ELSE c.execution_path[1]
        IN  /\ Len(marked) = (IF Len(path) = 0 THEN 0 ELSE Len(path) - 1)
            /\ \A i \in 1..Len(marked) :
                  marked[i].from = path[i] /\ marked[i].to = path[i + 1]
            /\ StaticGraph(c.result) = StaticGraph(generate_graphviz_dot(None))
            /\ Len(StaticGraph(c.result)) = Len(DotNodes) + Len(DotEdges)

C22_Witness ==
    \E c \in DotCalls :
        /\ c.execution_path = Some(<<"start", "parse_query", "error_handler", "end">>)
        /\ Len(MarkedEdges(c.result)) = 3
        /\ MarkedEdges(c.result)[3] = DotEdge("error_handler", "end", TRUE)

\* ===================================================== claims on the trace

\* C23: at the end of every run the returned execution_path lists, in
\* invocation order, every stage the engine invoked during the run, whether
\* the stage returned normally or raised.
C23_FaithfulTrace ==
    pc = "done" => returned[1].execution_path = invoked

ExecuteNodeCalls == {c \in SeqRange(lookup) : c.fn = "execute_node"}

\* the calls in which the stage function ran and returned
ExecutedCalls == {c \in ExecuteNodeCalls : c.result.called /\ ~c.result.raised}

\* C24: over any sequence of execute_node calls on one state, the executed
\* stage name is appended to execution_path unless it is already the last
\* entry; a stage revisited non-adjacently is appended again.
C24_AppendUnlessLast ==
    \A c \in ExecutedCalls :
        LET path == c.before.execution_path
        IN  c.result.st.execution_path =
                IF path # << >> /\ Last(path) = c.node_name THEN path
                ELSE Append(path, c.node_name)

IsPrefix(s, t) == Len(s) <= Len(t) /\ SubSeq(t, 1, Len(s)) = s

\* C25: over any sequence of execute_node calls on one state (start
\* included), the path after a call has the path before it as a prefix.
C25_AppendOnly ==
    \A c \in ExecuteNodeCalls :
        IsPrefix(c.before.execution_path, c.result.st.execution_path)

\* C26: executing a name that is not in the registry calls no stage function,
\* sets state.error, leaves execution_path and node_timings as they were, and
\* the loop runs error_handler next.
C26_UnknownStage ==
    \A c \in ExecuteNodeCalls :
        c.node_name \notin NodeRegistry =>
            /\ ~c.result.called
            /\ Truthy(c.result.st.error)
            /\ c.result.st.execution_path = c.before.execution_path
            /\ c.result.st.node_timings = c.before.node_timings
            /\ current_node = "error_handler"

C26_Witness ==
    \E c \in ExecuteNodeCalls :
        /\ c.node_name = "unknown_node"
        /\ c.before.execution_path = <<"start", "parse_query">>
        /\ c.result.st.error = Some("Unknown node")
        /\ current_node = "error_handler"

\* ============================================ claims on retries and recovery

Occurrences(s, x) == Cardinality({i \in 1..Len(s) : s[i] = x})

\* C27: within a run no stage is invoked more than once, a failed stage
\* included, and retry_count stays empty.
C27_NoRetries ==
    /\ \A name \in SeqRange(invoked) : Occurrences(invoked, name) = 1
    /\ state # None => state[1].retry_count = {}

C27_Witness ==
    /\ pc = "done"
    /\ invoked = <<"start", "parse_query", "tariff_lookup", "error_handler", "end">>
    /\ ClassifiedAs("tariff_rate")
    /\ state[1].retry_count = {}

\* error_handler has just been executed by the loop
HandlerFinished ==
    /\ pc = "loop"
    /\ invoked # << >>
    /\ Last(invoked) = "error_handler"

\* C28: after error_handler the next stage is end, also for a state that
\* error_handler would leave with error set, and error_handler is executed at
\* most once in a run.
C28_HandlerThenEnd ==
    [][/\ HandlerFinished =>
             /\ current_node = "end"
             /\ NextNode("error_handler", WithError(state[1], "handler failed")) = "end"
             /\ Len(invoked') > Len(invoked) => Last(invoked') = "end"
       /\ Occurrences(invoked, "error_handler") <= 1]_vars

C28_Witness ==
    /\ pc = "done"
    /\ invoked = <<"start", "parse_query", "error_handler", "end">>
    /\ raised_in = {"parse_query"}

\* ================================== claims on the two lookups of the store

\* C29: for every table, key and as_of, the current record returned by
\* get_tariff_with_history has the same rate and effective date as the record
\* returned by get_tariff_rate.
C29_SameCurrentSelection ==
    \A c \in SeqRange(lookup) :
        (c.fn = "get_tariff_with_history" /\ ~c.result.raised) =>
            LET resolved == get_tariff_rate(table, c.country, c.product_type, c.as_of_date)
            IN  /\ ~resolved.raised
                /\ (resolved.current = None) <=> (c.result.current = None)
                /\ c.result.current # None =>
                      /\ c.result.current[1].current_tariff = resolved.current[1].current_tariff
                      /\ c.result.current[1].start_time = resolved.current[1].start_time

\* ================================================== claims on the router

\* C30: for every stage the loop has just executed and the state it left,
\* determine_next_nodes returns exactly the one stage run_dynamic_analysis
\* executes next.
C30_RouterAgreesWithEngine ==
    (pc = "loop" /\ invoked # << >> /\ state[1].current_node = Last(invoked))
        => determine_next_nodes(state[1]) = <<current_node>>

\* ============================================ claims on the static graph

\* the static edges: those of graph_structure and the edge definitions of the
\* DOT text rendered without a path
StructureEdges ==
    {<<n, m>> \in NodeRegistry \X NodeRegistry : m \in SeqRange(graph_structure(n))}
RenderedEdges ==
    {<<l.from, l.to>> : l \in {x \in SeqRange(generate_graphviz_dot(None)) : x.kind = "edge"}}
StaticEdges == StructureEdges \cup RenderedEdges

\* C31: the static edges are the transitions of the routing: every pair of
\* consecutive stages executed in a run is a static edge.
C31_StaticGraphIsRouting ==
    \A i \in 1..(Len(invoked) - 1) : <<invoked[i], invoked[i + 1]>> \in StaticEdges

\* ============================================ claims on the returned result

\* C32: every run returns error = None, whether it ended through
\* response_formatter or through error_handler (which cannot fail).
C32_ErrorConsumed ==
    pc = "done" => returned[1].error = None

C32_Witness ==
    /\ pc = "done"
    /\ invoked = <<"start", "parse_query", "tariff_lookup", "response_formatter",
                   "error_handler", "end">>
    /\ raised_in = {}
    /\ returned[1].error = None
    /\ returned[1].response = Some("Troubleshooting tips")

\* C33: in every run the loop executes at most 5 stages before end: start,
\* parse_query, one of tariff_lookup and data_summary, response_formatter,
\* error_handler; the ceiling of max_iterations is never reached.
C33_CeilingNeverReached ==
    /\ Len(LoopCalls) <= 5
    /\ iteration <= 5
    /\ iteration < max_iterations
    /\ SeqRange(LoopCalls) \subseteq {"start", "parse_query", "tariff_lookup",
                                      "data_summary", "response_formatter",
                                      "error_handler"}
    /\ ~({"tariff_lookup", "data_summary"} \subseteq SeqRange(LoopCalls))

C33_Witness ==
    /\ pc = "loop"
    /\ iteration = 5
    /\ current_node = "end"
    /\ LoopCalls = <<"start", "parse_query", "data_summary", "response_formatter",
                     "error_handler">>

\* C34: the returned execution_path begins with start, ends with end and
\* holds end once, and the returned current_node is end, on successful and on
\* error runs alike.
C34_PathFromStartToEnd ==
    pc = "done" =>
        LET path == returned[1].execution_path
        IN  /\ path # << >>
            /\ path[1] = "start"
            /\ Last(path) = "end"
            /\ Occurrences(path, "end") = 1
            /\ returned[1].current_node = "end"

C34_Witness ==
    /\ pc = "done"
    /\ returned[1].execution_path = <<"start", "parse_query", "tariff_lookup",
                                      "error_handler", "end">>
    /\ "response_formatter" \in raised_in
    /\ returned[1].current_node = "end"

\* C35: after every step of a run the keys of node_timings are the stage
\* names in execution_path.
C35_TimingsMatchPath ==
    state # None => state[1].node_timings = SeqRange(state[1].execution_path)

C35_Witness ==
    /\ pc = "loop"
    /\ invoked = <<"start", "parse_query", "data_summary", "response_formatter">>
    /\ raised_in = {"response_formatter"}
    /\ state[1].node_timings = {"start", "parse_query", "data_summary"}

\* ============================================ claims on the CRUD server

\* the step in which client t is answered with an error status
AnsweredWithError(t) ==
    /\ requests[t].pc # "done"
    /\ requests'[t].pc = "done"
    /\ requests'[t].status \in {400, 404, 500}

\* C36: a create_row, update_row or delete_row request answered with an
\* error status (400, 404, 500) leaves the stored rows as they were before
\* it, also when a row with extra or missing fields makes the write fail.
C36_FailedRequestsAtomic ==
    [][\A t \in Clients : AnsweredWithError(t) => table_csv' = table_csv]_vars

\* C37: when two create_row requests run concurrently and both are answered
\* 201, both rows are in the table once both have finished, each at the
\* row_id its request was given.
C37_NoLostUpdate ==
    (\A t \in Clients : /\ requests[t].pc = "done"
                        /\ requests[t].op = "create_row"
                        /\ requests[t].status = 201)
    => \A t \in Clients :
          /\ requests[t].answered_row_id + 1 \in 1..Len(table_csv.rows)
          /\ table_csv.rows[requests[t].answered_row_id + 1].id = requests[t].body.id

====
